---- MODULE Spec2Model ----
(***************************************************************************)
(* yorosec-agent: the finding-normalisation, scoring and report pipeline.  *)
(*                                                                         *)
(* Go strings are modelled as sequences of bytes (0..255), so that         *)
(* strings.TrimSpace, strings.ToLower, strings.ToUpper, len(s), s[:n] and  *)
(* the < comparison of two strings are computed rather than assumed.       *)
(***************************************************************************)
EXTENDS Integers, Sequences, FiniteSets, TLC

VARIABLES
    viewPc,     \* "off" | "input" | "built": position of one buildViewModel call
    res,        \* schema.ScanResult.Findings handed to buildViewModel
    vm,         \* the viewModel returned by buildViewModel
    tPc,        \* "off" | "input" | "done": position of one truncate call
    tField,     \* "description" | "evidence": the call site of truncate
    tIn,        \* the text handed to truncate
    tOut,       \* the text truncate returned
    scanPc,     \* "off" | "start" | "engine" | "save" | "exit" | "panic": the scan command
    target,     \* the --target flag
    attest,     \* the --attest flag
    engine,     \* "none" | "failed" | "parsed": how far RunNuclei got
    raw,        \* the raw records RunNuclei parsed from the export of nuclei
    findings,   \* the findings RunNuclei returned
    scanErr,    \* the error the scan command returned, "" for nil
    engineCalls,\* calls of scanners.RunNuclei
    saved,      \* results written by utils.SaveResult
    build,      \* "part_003" | "part_002": which runReport the binary was built from
    reportPc,   \* "off" | "start" | "load" | "html" | "pdf" | "json" | "exit": the report command
    from,       \* the --from flag
    formatFlag, \* the --format flag, as typed
    formats,    \* the flag split at commas, each part lowered and trimmed
    backend,    \* "available" | "unavailable": the browser behind chromedp, this run
    htmlPath,   \* the path GenerateHTML returned, NoPath before
    reportErr,  \* the error runReport returned, <<>> for nil
    out,        \* the lines printed in this run
    calls,      \* the calls into package report in this run, with their outcome
    pdfLog      \* every PDF failure seen so far: condition, error, message, result

viewVars == <<viewPc, res, vm>>
truncVars == <<tPc, tField, tIn, tOut>>
scanVars == <<scanPc, target, attest, engine, raw, findings, scanErr, engineCalls, saved>>
reportVars == <<build, reportPc, from, formatFlag, formats, backend, htmlPath, reportErr,
                out, calls, pdfLog>>
vars == <<viewVars, truncVars, scanVars, reportVars>>

-----------------------------------------------------------------------------
(* Bounds of the model                                                     *)

MaxFindings == 3      \* findings of a ScanResult, all fields varying
MaxSeverities == 5    \* findings of a ScanResult, only the severity varying
MaxPad == 2           \* white space bytes around a text
MaxRaw == 2           \* raw records in one export of nuclei

-----------------------------------------------------------------------------
(* Byte strings and the strings package                                    *)

\* ASCII white space as strings.TrimSpace sees it: \t \n \v \f \r and space
\* (the texts of the model hold no white space outside ASCII)
IsSpace(c) == c \in {9, 10, 11, 12, 13, 32}

ToLowerByte(c) == IF c >= 65 /\ c <= 90 THEN c + 32 ELSE c

ToUpperByte(c) == IF c >= 97 /\ c <= 122 THEN c - 32 ELSE c

ToLower(s) == [i \in 1..Len(s) |-> ToLowerByte(s[i])]

ToUpper(s) == [i \in 1..Len(s) |-> ToUpperByte(s[i])]

TrimSpace(s) ==
    IF \A i \in 1..Len(s) : IsSpace(s[i]) THEN <<>>
    ELSE LET lo == CHOOSE i \in 1..Len(s) :
                      ~IsSpace(s[i]) /\ \A j \in 1..(i - 1) : IsSpace(s[j])
             hi == CHOOSE i \in 1..Len(s) :
                      ~IsSpace(s[i]) /\ \A j \in (i + 1)..Len(s) : IsSpace(s[j])
         IN  SubSeq(s, lo, hi)

\* a < b on Go strings: byte-wise lexicographic order
StrLess(a, b) ==
    \E k \in 1..(Len(b)) :
        /\ \A i \in 1..(k - 1) : i <= Len(a) /\ a[i] = b[i]
        /\ \/ k = Len(a) + 1
           \/ k <= Len(a) /\ a[k] < b[k]

-----------------------------------------------------------------------------
(* String literals of the source                                           *)

S_critical == <<99, 114, 105, 116, 105, 99, 97, 108>>   \* "critical"
S_high     == <<104, 105, 103, 104>>                     \* "high"
S_medium   == <<109, 101, 100, 105, 117, 109>>           \* "medium"
S_low      == <<108, 111, 119>>                          \* "low"
S_info     == <<105, 110, 102, 111>>                     \* "info"
S_NA       == <<78, 47, 65>>                             \* "N/A"
S_dash     == <<45>>                                     \* "-"
\* the marker literal of truncate, byte for byte as it stands in the source
Ellipsis   == <<195, 162, 226, 130, 172, 194, 166>>

-----------------------------------------------------------------------------
(* Go maps from string to int: a missing key reads as 0                    *)

EmptyMap == [k \in {} |-> 0]

Get(m, k) == IF k \in DOMAIN m THEN m[k] ELSE 0

Inc(m, k) == [x \in (DOMAIN m) \cup {k} |-> IF x = k THEN Get(m, k) + 1 ELSE m[x]]

-----------------------------------------------------------------------------
(* internal/report/generator.go: helpers                                   *)

\* 0-based index of v in arr, len(arr) when absent
indexOf(arr, v) ==
    IF \E i \in 1..Len(arr) : arr[i] = v
    THEN (CHOOSE i \in 1..Len(arr) : arr[i] = v /\ \A j \in 1..(i - 1) : arr[j] # v) - 1
    ELSE Len(arr)

scoreToGrade(score) ==
    IF score >= 90 THEN "A"
    ELSE IF score >= 80 THEN "B"
    ELSE IF score >= 70 THEN "C"
    ELSE IF score >= 60 THEN "D"
    ELSE "F"

normalizeCounts(in, order) ==
    [K \in {ToUpper(order[i]) : i \in 1..Len(order)} |->
        Get(in, CHOOSE k \in {order[i] : i \in 1..Len(order)} : ToUpper(k) = K)]

\* truncate with the boundary text cut as well
truncateStrict(s, n) ==
    LET t == TrimSpace(s)
    IN  IF Len(t) < n THEN t ELSE SubSeq(t, 1, n) \o Ellipsis

truncate(s, n) ==
    LET t == TrimSpace(s)
    IN  IF Len(t) <= n THEN t ELSE SubSeq(t, 1, n) \o Ellipsis

fallback(s, fb) == IF TrimSpace(s) = <<>> THEN fb ELSE s

min(a, b) == IF a < b THEN a ELSE b

-----------------------------------------------------------------------------
(* internal/report/generator.go: buildViewModel                            *)

sevOrder == <<S_critical, S_high, S_medium, S_low, S_info>>

sevWeight ==
    [k \in {S_critical, S_high, S_medium, S_low, S_info} |->
        IF k = S_critical THEN 4
        ELSE IF k = S_high THEN 3
        ELSE IF k = S_medium THEN 2
        ELSE IF k = S_low THEN 1
        ELSE 0]

DescLimit == 500
EvidLimit == 200

\* sev := strings.ToLower(strings.TrimSpace(f.Severity)); "" becomes "info"
effectiveSeverity(f) ==
    LET sev == ToLower(TrimSpace(f.Severity))
    IN  IF sev = <<>> THEN S_info ELSE sev

\* the findingRow appended for one finding
rowOf(f) ==
    [Severity    |-> ToUpper(effectiveSeverity(f)),
     ID          |-> fallback(f.ID, S_NA),
     Template    |-> fallback(f.Template, S_dash),
     Description |-> truncate(f.Description, DescLimit),
     Evidence    |-> truncate(f.Evidence, EvidLimit),
     Scanner     |-> f.Scanner]

\* counts[sev]++ over the findings, in input order
RECURSIVE countSeverities(_)
countSeverities(fs) ==
    IF fs = <<>> THEN EmptyMap
    ELSE Inc(countSeverities(SubSeq(fs, 1, Len(fs) - 1)), effectiveSeverity(fs[Len(fs)]))

\* the less function handed to sort.SliceStable
rowLess(a, b) ==
    LET ai == indexOf(sevOrder, ToLower(a.Severity))
        bi == indexOf(sevOrder, ToLower(b.Severity))
    IN  IF ai # bi THEN ai < bi ELSE StrLess(a.ID, b.ID)

\* sort.SliceStable: equal elements keep their order, so each element goes
\* behind every element that is not greater than it
InsertRow(sorted, x) ==
    LET k == Cardinality({i \in 1..Len(sorted) : ~rowLess(x, sorted[i])})
    IN  SubSeq(sorted, 1, k) \o <<x>> \o SubSeq(sorted, k + 1, Len(sorted))

RECURSIVE sortRows(_)
sortRows(rows) ==
    IF rows = <<>> THEN <<>>
    ELSE InsertRow(sortRows(SubSeq(rows, 1, Len(rows) - 1)), rows[Len(rows)])

\* for sev, c := range counts { total += c; weighted += sevWeight[sev] * c }
RECURSIVE sumCounts(_, _)
sumCounts(counts, keys) ==
    IF keys = {} THEN [total |-> 0, weighted |-> 0]
    ELSE LET k    == CHOOSE x \in keys : TRUE
             rest == sumCounts(counts, keys \ {k})
         IN  [total    |-> rest.total + counts[k],
              weighted |-> rest.weighted + Get(sevWeight, k) * counts[k]]

\* scoreOf with the division done before the scaling
scoreOfDivFirst(total, weighted) ==
    IF total > 0 THEN 100 - min(100, (weighted \div (total * 4)) * 100) ELSE 100

scoreOf(total, weighted) ==
    IF total > 0 THEN 100 - min(100, (weighted * 100) \div (total * 4)) ELSE 100

\* the fields of viewModel that depend on the findings; Target, ScanTime,
\* Generator, GeneratedAt and Year are copied or read from the clock
buildViewModel(fs) ==
    LET counts == countSeverities(fs)
        rows   == [i \in 1..Len(fs) |-> rowOf(fs[i])]
        sums   == sumCounts(counts, DOMAIN counts)
        score  == scoreOf(sums.total, sums.weighted)
    IN  [TotalFindings  |-> sums.total,
         Counts         |-> normalizeCounts(counts, sevOrder),
         Score          |-> score,
         Grade          |-> scoreToGrade(score),
         Findings       |-> sortRows(rows),
         LegendSeverity |-> [i \in 1..Len(sevOrder) |-> ToUpper(sevOrder[i])]]

\* the value of vm before buildViewModel has run
NoViewModel ==
    [TotalFindings |-> 0, Counts |-> EmptyMap, Score |-> 0, Grade |-> "",
     Findings |-> <<>>, LegendSeverity |-> <<>>]

-----------------------------------------------------------------------------
(* Inputs                                                                  *)

S_High   == <<72, 105, 103, 104>>          \* "High"
S_lowPad == <<32, 108, 111, 119, 32>>      \* " low "
S_bogus  == <<98, 111, 103, 117, 115>>     \* "bogus"
S_a      == <<97>>                         \* "a"
S_b      == <<98>>                         \* "b"
S_xss    == <<32, 120, 115, 115>>          \* " xss"

\* the first k bytes of " \t\n\r"
Pad(k) == SubSeq(<<32, 9, 10, 13>>, 1, k)

\* n bytes without white space at either end: ASCII with one inner space,
\* or the two-byte UTF-8 encoding of U+00E9 repeated
Body(n, kind) ==
    IF kind = "ascii"
    THEN [i \in 1..n |-> IF i = 2 /\ n >= 3 THEN 32 ELSE 120]
    ELSE [i \in 1..n |-> IF i % 2 = 1 THEN 195 ELSE 169]

BodyLens ==
    {0, 1, EvidLimit - 1, EvidLimit, EvidLimit + 1,
     DescLimit - 1, DescLimit, DescLimit + 1}

TextInputs ==
    {Pad(l) \o Body(n, kind) \o Pad(t) :
        l \in 0..MaxPad, t \in 0..MaxPad, n \in BodyLens, kind \in {"ascii", "utf8"}}

Finding(sev, id, text, scanner) ==
    [ID |-> id, Template |-> id, Severity |-> sev,
     Description |-> text, Evidence |-> text, Scanner |-> scanner]

LongText == Pad(1) \o Body(DescLimit + 1, "ascii") \o Pad(1)

FindingInputs ==
    {Finding(sev, id, S_xss, "nuclei") :
        sev \in {<<>>, S_critical, S_lowPad, S_bogus}, id \in {<<>>, S_a, S_b}}
    \cup {Finding(S_critical, S_a, LongText, "zap"), Finding(S_bogus, <<>>, LongText, "zap")}

SeverityInputs ==
    {Finding(sev, S_a, <<>>, "nuclei") :
        sev \in {<<>>, S_critical, S_High, S_medium, S_lowPad, S_bogus}}

RECURSIVE SeqsUpTo(_, _)
SeqsUpTo(S, n) ==
    IF n = 0 THEN {<<>>}
    ELSE LET shorter == SeqsUpTo(S, n - 1)
         IN  shorter \cup {Append(q, x) : q \in {r \in shorter : Len(r) = n - 1}, x \in S}

ScanResultInputs ==
    SeqsUpTo(FindingInputs, MaxFindings) \cup SeqsUpTo(SeverityInputs, MaxSeverities)

-----------------------------------------------------------------------------
(* Specification of buildViewModel                                         *)

ViewIdle == viewPc = "off" /\ res = <<>> /\ vm = NoViewModel

TruncIdle == tPc = "off" /\ tField = "description" /\ tIn = <<>> /\ tOut = <<>>

ScanIdle ==
    /\ scanPc = "off" /\ target = "" /\ attest = "" /\ engine = "none"
    /\ raw = <<>> /\ findings = <<>> /\ scanErr = "" /\ engineCalls = 0 /\ saved = <<>>

NoPath == [dir |-> "", stem |-> "", ext |-> ""]

ReportIdle ==
    /\ build = "part_003" /\ reportPc = "off" /\ from = "" /\ formatFlag = <<>>
    /\ formats = <<>> /\ backend = "available" /\ htmlPath = NoPath /\ reportErr = <<>>
    /\ out = <<>> /\ calls = <<>> /\ pdfLog = {}

Init ==
    /\ viewPc = "input"
    /\ res \in ScanResultInputs
    /\ vm = NoViewModel
    /\ TruncIdle
    /\ ScanIdle
    /\ ReportIdle

BuildViewModel ==
    /\ viewPc = "input"
    /\ vm' = buildViewModel(res)
    /\ viewPc' = "built"
    /\ UNCHANGED <<res, truncVars, scanVars, reportVars>>

Next == BuildViewModel

Spec == Init /\ [][Next]_vars

-----------------------------------------------------------------------------
(* Specification of truncate at its two call sites                         *)

InitTruncate ==
    /\ tPc = "input"
    /\ tField \in {"description", "evidence"}
    /\ tIn \in TextInputs
    /\ tOut = <<>>
    /\ ViewIdle
    /\ ScanIdle
    /\ ReportIdle

TruncateDescription ==
    /\ tPc = "input" /\ tField = "description"
    /\ tOut' = truncate(tIn, DescLimit)
    /\ tPc' = "done"
    /\ UNCHANGED <<tField, tIn, viewVars, scanVars, reportVars>>

TruncateEvidence ==
    /\ tPc = "input" /\ tField = "evidence"
    /\ tOut' = truncate(tIn, EvidLimit)
    /\ tPc' = "done"
    /\ UNCHANGED <<tField, tIn, viewVars, scanVars, reportVars>>

NextTruncate == TruncateDescription \/ TruncateEvidence

SpecTruncate == InitTruncate /\ [][NextTruncate]_vars

-----------------------------------------------------------------------------
(* Vocabulary of the claims about buildViewModel                           *)

U_CRITICAL == <<67, 82, 73, 84, 73, 67, 65, 76>>   \* "CRITICAL"
U_HIGH     == <<72, 73, 71, 72>>                   \* "HIGH"
U_MEDIUM   == <<77, 69, 68, 73, 85, 77>>           \* "MEDIUM"
U_LOW      == <<76, 79, 87>>                       \* "LOW"
U_INFO     == <<73, 78, 70, 79>>                   \* "INFO"

CanonicalLabels == {U_CRITICAL, U_HIGH, U_MEDIUM, U_LOW, U_INFO}

\* the canonical severity of a finding as the specification defines it:
\* compared case-insensitively after trimming, anything else is info
CanonicalSeverity(f) ==
    LET s == ToUpper(TrimSpace(f.Severity))
    IN  IF s \in CanonicalLabels THEN s ELSE U_INFO

CanonicalRank(f) ==
    LET s == CanonicalSeverity(f)
    IN  IF s = U_CRITICAL THEN 0
        ELSE IF s = U_HIGH THEN 1
        ELSE IF s = U_MEDIUM THEN 2
        ELSE IF s = U_LOW THEN 3
        ELSE 4

CanonicalWeight(f) == 4 - CanonicalRank(f)

RECURSIVE SumOver(_, _)
SumOver(m, keys) ==
    IF keys = {} THEN 0
    ELSE LET k == CHOOSE x \in keys : TRUE IN m[k] + SumOver(m, keys \ {k})

RECURSIVE WeightedSum(_)
WeightedSum(fs) ==
    IF fs = <<>> THEN 0
    ELSE WeightedSum(SubSeq(fs, 1, Len(fs) - 1)) + CanonicalWeight(fs[Len(fs)])

HasUnrecognizedSeverity(fs) ==
    \E i \in 1..Len(fs) :
        LET s == ToUpper(TrimSpace(fs[i].Severity))
        IN  s # <<>> /\ s \notin CanonicalLabels

IndexPermutations(n) == {p \in [1..n -> 1..n] : \A i, j \in 1..n : p[i] = p[j] => i = j}

-----------------------------------------------------------------------------
(* Claims about buildViewModel, checked under Spec                         *)

\* C1: for every Finding sequence the Counts map returned by buildViewModel
\* has exactly the five keys CRITICAL, HIGH, MEDIUM, LOW, INFO and its five
\* values sum to TotalFindings.
C1_CountsSumToTotal ==
    viewPc = "built" =>
        /\ DOMAIN vm.Counts = CanonicalLabels
        /\ SumOver(vm.Counts, DOMAIN vm.Counts) = vm.TotalFindings

\* C2: every row buildViewModel produces carries one of the five canonical
\* severities; an empty or unrecognized severity appears as INFO and is
\* counted under INFO.
C2_RowSeverityCanonical ==
    viewPc = "built" =>
        /\ \A i \in 1..Len(vm.Findings) : vm.Findings[i].Severity \in CanonicalLabels
        /\ \A L \in CanonicalLabels :
              vm.Counts[L] = Cardinality({i \in 1..Len(res) : CanonicalSeverity(res[i]) = L})

\* C5: Score is 100 without findings and otherwise
\* 100 - min(100, floor(weighted*100 / (total*4))) with the weights critical=4,
\* high=3, medium=2, low=1, info=0 and total the number of findings; it lies
\* in 0..100, and Grade is A from 90, B from 80, C from 70, D from 60, else F.
C5_ScoreAndGrade ==
    viewPc = "built" =>
        LET total    == Len(res)
            weighted == WeightedSum(res)
            quotient == (weighted * 100) \div (total * 4)
            expected == IF total = 0 THEN 100
                        ELSE 100 - (IF quotient > 100 THEN 100 ELSE quotient)
        IN  /\ vm.Score = expected
            /\ vm.Score \in 0..100
            /\ vm.Grade = (CASE vm.Score >= 90 -> "A"
                             [] vm.Score >= 80 /\ vm.Score < 90 -> "B"
                             [] vm.Score >= 70 /\ vm.Score < 80 -> "C"
                             [] vm.Score >= 60 /\ vm.Score < 70 -> "D"
                             [] vm.Score < 60 -> "F")

\* a view model built from five findings, one of unrecognized severity, whose
\* score sits exactly on the boundary of grade B
C5_Witness ==
    /\ viewPc = "built"
    /\ Len(res) = 5
    /\ HasUnrecognizedSeverity(res)
    /\ vm.Score = 80
    /\ vm.Grade = "B"

\* C6: the rows are a permutation of the input findings ordered by severity
\* rank (critical, high, medium, low, info) and then by id, ascending; rows of
\* equal severity and id keep their input order.
C6_RowsOrdered ==
    viewPc = "built" =>
        \E p \in IndexPermutations(Len(res)) :
            /\ Len(vm.Findings) = Len(res)
            /\ \A k \in 1..Len(res) : vm.Findings[k] = rowOf(res[p[k]])
            /\ \A k, l \in 1..Len(res) :
                  k < l =>
                      LET rk == CanonicalRank(res[p[k]])
                          rl == CanonicalRank(res[p[l]])
                          ik == rowOf(res[p[k]]).ID
                          il == rowOf(res[p[l]]).ID
                      IN  \/ rk < rl
                          \/ rk = rl /\ StrLess(ik, il)
                          \/ rk = rl /\ ik = il /\ p[k] < p[l]

-----------------------------------------------------------------------------
(* Claim about truncate, checked under SpecTruncate                        *)

\* the number of white space bytes s starts with
LeadingSpaces(s) ==
    CHOOSE a \in 0..Len(s) :
        /\ \A i \in 1..a : IsSpace(s[i])
        /\ a = Len(s) \/ ~IsSpace(s[a + 1])

\* the number of white space bytes s ends with
TrailingSpaces(s) ==
    CHOOSE b \in 0..Len(s) :
        /\ \A i \in 1..b : IsSpace(s[Len(s) + 1 - i])
        /\ b = Len(s) \/ ~IsSpace(s[Len(s) - b])

Trimmed(s) ==
    IF LeadingSpaces(s) = Len(s) THEN <<>>
    ELSE SubSeq(s, LeadingSpaces(s) + 1, Len(s) - TrailingSpaces(s))

LimitOf(field) == IF field = "description" THEN 500 ELSE 200

\* C9: truncate trims leading and trailing white space; a trimmed text no
\* longer than the limit (500 for a description, 200 for evidence) comes back
\* unchanged without marker, a longer one as its first limit bytes followed by
\* exactly one ellipsis marker.
C9_Truncate ==
    tPc = "done" =>
        LET t == Trimmed(tIn)
            n == LimitOf(tField)
        IN  IF Len(t) <= n
            THEN tOut = t
            ELSE /\ Len(tOut) = n + Len(Ellipsis)
                 /\ SubSeq(tOut, 1, n) = SubSeq(t, 1, n)
                 /\ SubSeq(tOut, n + 1, Len(tOut)) = Ellipsis

\* a padded description of 501 bytes was cut to 500 bytes and the marker
C9_Witness ==
    /\ tPc = "done"
    /\ tField = "description"
    /\ Len(tIn) > 501
    /\ Len(Trimmed(tIn)) = 501
    /\ Len(tOut) = 500 + Len(Ellipsis)

-----------------------------------------------------------------------------
(* internal/scanners/nuclei.go: the normalization loop of RunNuclei        *)

\* A decoded JSON value (interface{}): null, a string, a number or an object.
\* Indexing a Go map with an absent key yields nil, as a JSON null does.
JNull      == [t |-> "null"]
JString(b) == [t |-> "string", s |-> b]
JNumber    == [t |-> "number"]
JObject(severity, description) ==
    [t |-> "object", severity |-> severity, description |-> description]

\* v.(string) with the comma-ok form
IsString(v) == v.t = "string"

\* r["info"].(map[string]interface{}) without the comma-ok form panics
\* unless the value is an object
infoPanics(r) == r.info.t # "object"

\* the Finding built from one raw record whose "info" is an object
findingOf(r, tgt) ==
    [Target      |-> tgt,
     Scanner     |-> "nuclei",
     ID          |-> IF IsString(r.templateId) THEN r.templateId.s ELSE <<>>,
     Template    |-> IF IsString(r.templateId) THEN r.templateId.s ELSE <<>>,
     Severity    |-> IF IsString(r.info.severity) THEN r.info.severity.s ELSE <<>>,
     Description |-> IF IsString(r.info.description) THEN r.info.description.s ELSE <<>>,
     Evidence    |-> IF IsString(r.matchedAt) THEN r.matchedAt.s ELSE <<>>]

\* for _, r := range raw { ... }: the first record whose "info" is not an
\* object panics and no findings are returned
normalizeRaw(batch, tgt) ==
    IF \E i \in 1..Len(batch) : infoPanics(batch[i])
    THEN [panic |-> TRUE, findings |-> <<>>]
    ELSE [panic |-> FALSE, findings |-> [i \in 1..Len(batch) |-> findingOf(batch[i], tgt)]]

S_tid == <<99, 118, 101>>                  \* "cve"
S_url == <<104, 116, 116, 112>>            \* "http"

RawRecords ==
    {[templateId |-> tid, info |-> info, matchedAt |-> m] :
        tid \in {JNull, JNumber, JString(S_tid)},
        info \in {JNull, JString(S_high), JObject(JString(S_High), JString(S_xss)),
                  JObject(JNumber, JNull), JObject(JNull, JString(S_xss))},
        m \in {JNull, JString(S_url)}}

RawBatches == SeqsUpTo(RawRecords, MaxRaw)

-----------------------------------------------------------------------------
(* pkg/cli/scan.go: the scan command                                       *)

ErrNoTarget == "please provide --target"
ErrNoAttest == "please provide --attest to confirm authorization"

\* checkFlags without the attestation check
checkFlagsTargetOnly(tgt, att) ==
    IF tgt = "" THEN ErrNoTarget ELSE ""

\* the two flag checks that open RunE; "" is a nil error
checkFlags(tgt, att) ==
    IF tgt = "" THEN ErrNoTarget
    ELSE IF att = "" THEN ErrNoAttest
    ELSE ""

InitScan ==
    /\ scanPc = "start"
    /\ target \in {"", "example.com", "10.0.0.7"}
    /\ attest \in {"", "I am authorized to test this target"}
    /\ engine = "none" /\ raw = <<>> /\ findings = <<>>
    /\ scanErr = "" /\ engineCalls = 0 /\ saved = <<>>
    /\ ViewIdle
    /\ TruncIdle
    /\ ReportIdle

ScanCheckFlags ==
    /\ scanPc = "start"
    /\ scanErr' = checkFlags(target, attest)
    /\ scanPc' = IF scanErr' = "" THEN "engine" ELSE "exit"
    /\ UNCHANGED <<target, attest, engine, raw, findings, engineCalls, saved, viewVars, truncVars, reportVars>>

\* RunNuclei returns before its loop: nuclei failed, or its export could not
\* be read or parsed
RunNucleiFails ==
    /\ scanPc = "engine"
    /\ engineCalls' = engineCalls + 1
    /\ \E e \in {"nuclei failed", "failed to read nuclei output", "failed to parse nuclei JSON"} :
          scanErr' = e
    /\ engine' = "failed"
    /\ scanPc' = "exit"
    /\ UNCHANGED <<target, attest, raw, findings, saved, viewVars, truncVars, reportVars>>

\* RunNuclei parsed the export and runs its loop over the raw records
RunNuclei ==
    /\ scanPc = "engine"
    /\ engineCalls' = engineCalls + 1
    /\ \E batch \in RawBatches :
          /\ raw' = batch
          /\ findings' = normalizeRaw(batch, target).findings
          /\ scanPc' = IF normalizeRaw(batch, target).panic THEN "panic" ELSE "save"
    /\ engine' = "parsed"
    /\ UNCHANGED <<target, attest, scanErr, saved, viewVars, truncVars, reportVars>>

SaveResult ==
    /\ scanPc = "save"
    /\ \/ /\ saved' = Append(saved, [Target |-> target, Findings |-> findings])
          /\ scanErr' = ""
       \/ /\ scanErr' \in {"failed to create output dir", "failed to create results.json",
                           "failed to encode results"}
          /\ UNCHANGED saved
    /\ scanPc' = "exit"
    /\ UNCHANGED <<target, attest, engine, raw, findings, engineCalls, viewVars, truncVars, reportVars>>

NextScan == ScanCheckFlags \/ RunNucleiFails \/ RunNuclei \/ SaveResult

SpecScan == InitScan /\ [][NextScan]_vars

-----------------------------------------------------------------------------
(* Claims about the scan command and RunNuclei, checked under SpecScan     *)

\* the string a raw field holds, empty when the field is absent or no string
FieldText(v) == IF v.t = "string" THEN v.s ELSE <<>>

\* C3: the normalization loop of RunNuclei never aborts the batch: whatever
\* the raw records hold (no "info", an "info" that is no object, a
\* "template-id" or "matched-at" that is absent or no string), the loop
\* completes and returns one Finding per raw record, with the fields of
\* missing or malformed raw fields left empty.
C3_LoopNeverAborts ==
    engine = "parsed" =>
        /\ scanPc # "panic"
        /\ Len(findings) = Len(raw)
        /\ \A i \in 1..Len(raw) :
              /\ findings[i].ID = FieldText(raw[i].templateId)
              /\ findings[i].Template = FieldText(raw[i].templateId)
              /\ findings[i].Evidence = FieldText(raw[i].matchedAt)
              /\ findings[i].Severity =
                    (IF raw[i].info.t = "object" THEN FieldText(raw[i].info.severity) ELSE <<>>)
              /\ findings[i].Description =
                    (IF raw[i].info.t = "object" THEN FieldText(raw[i].info.description) ELSE <<>>)

\* C8: with an empty target or an empty attestation the scan command returns
\* an error without calling RunNuclei and without saving a result; RunNuclei
\* is called only after both checks have passed.
C8_NoEngineWithoutFlags ==
    /\ (target = "" \/ attest = "") =>
          /\ engineCalls = 0
          /\ saved = <<>>
          /\ scanPc \in {"start", "exit"}
          /\ scanPc = "exit" => scanErr \in {ErrNoTarget, ErrNoAttest}
    /\ (engineCalls > 0 \/ scanPc \in {"engine", "save", "panic"}) => target # "" /\ attest # ""

\* the command has returned the attestation error for a given target
C8_Witness ==
    /\ scanPc = "exit"
    /\ target # ""
    /\ attest = ""
    /\ scanErr = ErrNoAttest
    /\ engineCalls = 0

-----------------------------------------------------------------------------
(* The report command: runReport, with package report behind it            *)

S_pdf  == <<112, 100, 102>>        \* "pdf"
S_json == <<106, 115, 111, 110>>   \* "json"

\* strings.Split(s, ","): "" splits into one empty part
RECURSIVE Split(_)
Split(s) ==
    IF \A i \in 1..Len(s) : s[i] # 44 THEN <<s>>
    ELSE LET k == CHOOSE i \in 1..Len(s) : s[i] = 44 /\ \A j \in 1..(i - 1) : s[j] # 44
         IN  <<SubSeq(s, 1, k - 1)>> \o Split(SubSeq(s, k + 1, Len(s)))

\* formats[i] = strings.TrimSpace(strings.ToLower(formats[i]))
parseFormats(flag) ==
    LET parts == Split(flag)
    IN  [i \in 1..Len(parts) |-> TrimSpace(ToLower(parts[i]))]

\* contains that finds everything
containsAny(arr, v) == TRUE

contains(arr, v) == \E i \in 1..Len(arr) : arr[i] = v

\* an error is the chain of its messages, outermost first; <<>> is nil
Errorf(prefix, err) == <<prefix>> \o err

ErrNoFrom == <<"please provide --from pointing to the scan directory (with results.json)">>

\* the sentinel part_002 compares with; package report as given never returns it
ErrWKHTMLNotFound == <<"wkhtmltopdf not found">>

\* filepath.Join(outDir, "report.html")
htmlPathOf(outDir) == [dir |-> outDir, stem |-> "report", ext |-> ".html"]

\* strings.TrimSuffix(htmlPath, ".html") + ".pdf"
pdfPathOf(path) ==
    IF path.ext = ".html" THEN [path EXCEPT !.ext = ".pdf"]
    ELSE [path EXCEPT !.ext = path.ext \o ".pdf"]

\* GeneratePDF, given what chromedp.Run and os.WriteFile returned
GeneratePDF(path, runErr, writeErr) ==
    IF runErr # <<>>
    THEN [path |-> NoPath, err |-> Errorf("chromedp PDF generation failed", runErr)]
    ELSE IF writeErr # <<>>
    THEN [path |-> NoPath, err |-> Errorf("write pdf", writeErr)]
    ELSE [path |-> pdfPathOf(path), err |-> <<>>]

\* What chromedp.Run can return. The 60 second deadline of GeneratePDF covers
\* the start of the browser as well as the printing, so a browser that cannot
\* be reached and a conversion that takes too long both end at the deadline.
RunErrors(cond) ==
    IF cond = "unavailable"
    THEN {<<"exec: executable file not found in $PATH">>, <<"context deadline exceeded">>}
    ELSE {<<>>, <<"context deadline exceeded">>, <<"page load error">>}

WriteErrors == {<<>>, <<"permission denied">>}

Line(text, path, err) == [text |-> text, path |-> path, err |-> err]

\* The "Optional PDF" branch of runReport: what it prints, and the error it
\* returns at once (<<>>: it goes on to the JSON passthrough).
\* part_003: every failure is printed, none is returned
optionalPDF_part003(pdf) ==
    IF pdf.err # <<>>
    THEN [print |-> <<Line("PDF generation failed: %v", NoPath, pdf.err)>>, ret |-> <<>>]
    ELSE [print |-> <<Line("PDF report:  %s", pdf.path, <<>>)>>, ret |-> <<>>]

\* part_002: the sentinel is explained, every other failure is returned
optionalPDF_part002(pdf) ==
    IF pdf.err # <<>>
    THEN IF pdf.err = ErrWKHTMLNotFound
         THEN [print |-> <<Line("wkhtmltopdf is not installed. To enable PDF export on macOS:",
                                NoPath, <<>>),
                           Line("    brew install wkhtmltopdf", NoPath, <<>>)>>,
               ret |-> <<>>]
         ELSE [print |-> <<>>, ret |-> pdf.err]
    ELSE [print |-> <<Line("PDF report:  %s", pdf.path, <<>>)>>, ret |-> <<>>]

pdfBranch(bld, pdf) ==
    IF bld = "part_003" THEN optionalPDF_part003(pdf) ELSE optionalPDF_part002(pdf)

\* Execute prints the error a command returned
printedByExecute(err) == IF err = <<>> THEN <<>> ELSE <<Line("%v", NoPath, err)>>

Call(fn, ok) == [fn |-> fn, ok |-> ok]

FormatFlags ==
    {<<104, 116, 109, 108, 44, 112, 100, 102>>,               \* "html,pdf"
     <<104, 116, 109, 108>>,                                  \* "html"
     <<32, 80, 68, 70, 32, 44, 106, 115, 111, 110>>,          \* " PDF ,json"
     <<106, 115, 111, 110>>,                                  \* "json"
     <<>>}                                                    \* ""

LoadedResults ==
    {<<>>,
     <<Finding(S_bogus, S_a, S_xss, "nuclei")>>,
     <<Finding(S_lowPad, S_b, S_xss, "nuclei"), Finding(S_critical, S_a, LongText, "zap")>>}

\* one invocation of the command: the flags and the state of the browser
ReportInputs ==
    /\ from \in {"", "./reports/example.com_20250911_131722"}
    /\ formatFlag \in FormatFlags
    /\ backend \in {"available", "unavailable"}

InitReport ==
    /\ build \in {"part_003", "part_002"}
    /\ reportPc = "start"
    /\ ReportInputs
    /\ formats = <<>> /\ htmlPath = NoPath /\ reportErr = <<>>
    /\ out = <<>> /\ calls = <<>> /\ pdfLog = {}
    /\ ViewIdle
    /\ TruncIdle
    /\ ScanIdle

\* runReport up to the call of LoadScanResult
ReportStart ==
    /\ reportPc = "start"
    /\ IF from = ""
       THEN /\ reportErr' = ErrNoFrom
            /\ out' = out \o printedByExecute(ErrNoFrom)
            /\ reportPc' = "exit"
            /\ UNCHANGED formats
       ELSE /\ formats' = parseFormats(formatFlag)
            /\ reportPc' = "load"
            /\ UNCHANGED <<reportErr, out>>
    /\ UNCHANGED <<build, from, formatFlag, backend, htmlPath, calls, pdfLog,
                   viewVars, truncVars, scanVars>>

ReportLoad ==
    /\ reportPc = "load"
    /\ \/ /\ res' \in LoadedResults
          /\ calls' = Append(calls, Call("LoadScanResult", TRUE))
          /\ reportPc' = "html"
          /\ UNCHANGED <<reportErr, out>>
       \/ \E e \in {Errorf("read results.json", <<"no such file or directory">>),
                    Errorf("parse results.json", <<"unexpected end of JSON input">>)} :
             /\ calls' = Append(calls, Call("LoadScanResult", FALSE))
             /\ reportErr' = e
             /\ out' = out \o printedByExecute(e)
             /\ reportPc' = "exit"
             /\ UNCHANGED res
    /\ UNCHANGED <<build, from, formatFlag, formats, backend, htmlPath, pdfLog,
                   viewPc, vm, truncVars, scanVars>>

ReportHTML ==
    /\ reportPc = "html"
    /\ vm' = buildViewModel(res)
    /\ \/ /\ htmlPath' = htmlPathOf(from)
          /\ calls' = Append(calls, Call("GenerateHTML", TRUE))
          /\ out' = Append(out, Line("HTML report: %s", htmlPath', <<>>))
          /\ reportPc' = IF contains(formats, S_pdf) THEN "pdf" ELSE "json"
          /\ UNCHANGED reportErr
       \/ \E e \in {Errorf("create out dir", <<"permission denied">>),
                    Errorf("parse template", <<"unexpected token">>),
                    Errorf("execute template", <<"cannot evaluate field">>),
                    Errorf("write report.html", <<"no space left on device">>)} :
             /\ calls' = Append(calls, Call("GenerateHTML", FALSE))
             /\ reportErr' = e
             /\ out' = out \o printedByExecute(e)
             /\ reportPc' = "exit"
             /\ UNCHANGED htmlPath
    /\ UNCHANGED <<build, from, formatFlag, formats, backend, pdfLog,
                   viewPc, res, truncVars, scanVars>>

ReportPDF ==
    /\ reportPc = "pdf"
    /\ \E runErr \in RunErrors(backend), writeErr \in WriteErrors :
          LET pdf    == GeneratePDF(htmlPath, runErr, writeErr)
              branch == pdfBranch(build, pdf)
          IN  /\ calls' = Append(calls, Call("GeneratePDF", pdf.err = <<>>))
              /\ reportErr' = branch.ret
              /\ out' = out \o branch.print \o printedByExecute(branch.ret)
              /\ reportPc' = IF branch.ret = <<>> THEN "json" ELSE "exit"
              /\ pdfLog' = IF pdf.err = <<>> THEN pdfLog
                           ELSE pdfLog \cup {[backend |-> backend, err |-> pdf.err,
                                              print |-> branch.print, ret |-> branch.ret]}
    /\ UNCHANGED <<build, from, formatFlag, formats, backend, htmlPath,
                   viewVars, truncVars, scanVars>>

\* the JSON passthrough and return nil
ReportJSON ==
    /\ reportPc = "json"
    /\ out' = IF contains(formats, S_json)
              THEN Append(out, Line("JSON already exists at: %s",
                                    [dir |-> from, stem |-> "results", ext |-> ".json"], <<>>))
              ELSE out
    /\ reportErr' = <<>>
    /\ reportPc' = "exit"
    /\ UNCHANGED <<build, from, formatFlag, formats, backend, htmlPath, calls, pdfLog,
                   viewVars, truncVars, scanVars>>

\* the command is invoked again, in a fresh process
ReportAgain ==
    /\ reportPc = "exit"
    /\ reportPc' = "start"
    /\ from' \in {"", "./reports/example.com_20250911_131722"}
    /\ formatFlag' \in FormatFlags
    /\ backend' \in {"available", "unavailable"}
    /\ formats' = <<>> /\ htmlPath' = NoPath /\ reportErr' = <<>>
    /\ out' = <<>> /\ calls' = <<>>
    /\ res' = <<>> /\ vm' = NoViewModel
    /\ UNCHANGED <<build, pdfLog, viewPc, truncVars, scanVars>>

NextReport ==
    ReportStart \/ ReportLoad \/ ReportHTML \/ ReportPDF \/ ReportJSON \/ ReportAgain

SpecReport == InitReport /\ [][NextReport]_vars

-----------------------------------------------------------------------------
(* Claims about the report command, checked under SpecReport               *)

CallNames == [i \in 1..Len(calls) |-> calls[i].fn]

Called(fn) == \E i \in 1..Len(calls) : calls[i].fn = fn

Failed(fn) == \E i \in 1..Len(calls) : calls[i].fn = fn /\ ~calls[i].ok

Succeeded(fn) == \E i \in 1..Len(calls) : calls[i].fn = fn /\ calls[i].ok

\* C4: once the HTML report has been written, the command succeeds whatever
\* GeneratePDF returns; a PDF failure is only printed, never returned, and the
\* HTML path reported before stays as it was.
C4_PdfFailureNotFatal ==
    (reportPc = "exit" /\ Succeeded("GenerateHTML")) =>
        /\ reportErr = <<>>
        /\ Failed("GeneratePDF") => Len(out) >= 2
        /\ htmlPath = htmlPathOf(from)
        /\ out[1] = Line("HTML report: %s", htmlPath, <<>>)

\* C7: a missing conversion backend and a failed conversion with the backend
\* present (a timeout, say) give distinct errors and distinct user-visible
\* messages.
C7_FailuresDistinguished ==
    \A a, b \in pdfLog :
        a.backend # b.backend =>
            /\ a.err # b.err
            /\ <<a.print, a.ret>> # <<b.print, b.ret>>

\* C10: the steps of a run come in the order load, HTML, PDF, each at most
\* once; a failed load ends the run with an error before anything is
\* generated; a run whose input loads generates the HTML report whatever the
\* formats; a failed HTML generation ends the run with an error before any
\* PDF conversion; the PDF conversion is attempted only when "pdf" is among
\* the requested formats and the HTML report has been written.
C10_StepOrder ==
    /\ \E n \in 0..3 : CallNames = SubSeq(<<"LoadScanResult", "GenerateHTML", "GeneratePDF">>, 1, n)
    /\ Failed("LoadScanResult") =>
          Len(calls) = 1 /\ reportPc = "exit" /\ reportErr # <<>> /\ htmlPath = NoPath
    /\ (reportPc \in {"pdf", "json", "exit"} /\ Succeeded("LoadScanResult")) =>
          Called("GenerateHTML")
    /\ Failed("GenerateHTML") =>
          Len(calls) = 2 /\ reportPc = "exit" /\ reportErr # <<>> /\ htmlPath = NoPath
    /\ (reportPc = "pdf" \/ Called("GeneratePDF")) =>
          /\ \E i \in 1..Len(formats) : formats[i] = S_pdf
          /\ Succeeded("GenerateHTML")
          /\ htmlPath = htmlPathOf(from)
    /\ (reportPc \in {"json", "exit"} /\ Succeeded("GenerateHTML")
          /\ \E i \in 1..Len(formats) : formats[i] = S_pdf) =>
          Called("GeneratePDF")

\* a run asked for " PDF ,json" went through load, HTML and one PDF attempt
C10_Witness ==
    /\ reportPc = "exit"
    /\ formatFlag = <<32, 80, 68, 70, 32, 44, 106, 115, 111, 110>>
    /\ CallNames = <<"LoadScanResult", "GenerateHTML", "GeneratePDF">>
    /\ Failed("GeneratePDF")

====
